---- MODULE Spec2Model ----
(***************************************************************************)
(* Model of the OneThrive backend: the ROI estimator calculateROI, the     *)
(* submission handlers of src/server.js, src/roiCalculator.js and the two  *)
(* programs of src/backend.js, the listing of the culture-quiz emails and  *)
(* the rate limiter.                                                       *)
(*                                                                         *)
(* Spec follows one process from its start; SpecListing follows the second *)
(* program of backend.js across restarts; SpecLimiter follows the limiter  *)
(* alone, with the handlers reduced to a count of the requests that reach  *)
(* them; SpecROI calls the estimator on its own.                           *)
(*                                                                         *)
(* JavaScript Number values are modelled as exact rationals num/den kept   *)
(* in lowest terms, together with NaN and undefined; the rounding of       *)
(* binary64 arithmetic is not modelled.                                    *)
(***************************************************************************)
EXTENDS Integers, Sequences, FiniteSets, TLC

----------------------------------------------------------------------------
(* Bounds of the model *)

MaxEmployees == 2
MaxSalaryUnits == 2
MaxRevenueUnits == 1
MaxAbsentDays == 1
MaxHalfScore == 21
MaxRequests == 2
MaxRestarts == 1
MaxHandled == 11
MaxWindows == 1

----------------------------------------------------------------------------
(* JavaScript values and arithmetic *)

Abs(x) == IF x < 0 THEN -x ELSE x

RECURSIVE GCD(_, _)
GCD(a, b) == IF b = 0 THEN a ELSE GCD(b, a % b)

\* The Number n/d (d > 0) in lowest terms.
Number(n, d) ==
  LET g == GCD(Abs(n), d)
  IN  [type |-> "number", num |-> n \div g, den |-> d \div g]

NaN == [type |-> "number", num |-> 0, den |-> 0]

undefined == [type |-> "undefined", num |-> 0, den |-> 0]

\* ToNumber: undefined converts to NaN, a Number to itself.
ToNumber(v) == IF v.type = "undefined" THEN NaN ELSE v

IsNaN(x) == x.type = "number" /\ x.den = 0

\* a * b
Mul(a, b) ==
  LET x == ToNumber(a)
      y == ToNumber(b)
  IN  IF IsNaN(x) \/ IsNaN(y) THEN NaN
      ELSE LET g1 == GCD(Abs(x.num), y.den)
               g2 == GCD(Abs(y.num), x.den)
           IN  [type |-> "number",
                num  |-> (x.num \div g1) * (y.num \div g2),
                den  |-> (x.den \div g2) * (y.den \div g1)]

\* a / b, for the non-zero divisors the programs use (the literals 10, 250)
Div(a, b) ==
  LET x == ToNumber(a)
      y == ToNumber(b)
  IN  IF IsNaN(x) \/ IsNaN(y) \/ y.num = 0 THEN NaN
      ELSE IF y.num > 0
           THEN Mul(x, [type |-> "number", num |-> y.den, den |-> y.num])
           ELSE Mul(x, [type |-> "number", num |-> -y.den, den |-> -y.num])

\* a + b
Add(a, b) ==
  LET x == ToNumber(a)
      y == ToNumber(b)
  IN  IF IsNaN(x) \/ IsNaN(y) THEN NaN
      ELSE LET g == GCD(x.den, y.den)
           IN  Number(x.num * (y.den \div g) + y.num * (x.den \div g),
                      (x.den \div g) * y.den)

\* a - b
Sub(a, b) ==
  LET y == ToNumber(b)
  IN  IF IsNaN(y) THEN NaN
      ELSE Add(a, [type |-> "number", num |-> -y.num, den |-> y.den])

\* a < b : false when either side is NaN
Less(a, b) ==
  LET x == ToNumber(a)
      y == ToNumber(b)
  IN  IF IsNaN(x) \/ IsNaN(y) THEN FALSE
      ELSE LET g == GCD(x.den, y.den)
           IN  x.num * (y.den \div g) < y.num * (x.den \div g)

\* a > b
Greater(a, b) == Less(b, a)

\* a <= b on Numbers (used by the properties only on non-NaN values)
LessEq(a, b) == ~IsNaN(ToNumber(a)) /\ ~IsNaN(ToNumber(b)) /\ ~Less(b, a)

\* Math.min(a, b)
MathMin(a, b) ==
  LET x == ToNumber(a)
      y == ToNumber(b)
  IN  IF IsNaN(x) \/ IsNaN(y) THEN NaN
      ELSE IF Less(y, x) THEN y ELSE x

\* Math.max(a, b)
MathMax(a, b) ==
  LET x == ToNumber(a)
      y == ToNumber(b)
  IN  IF IsNaN(x) \/ IsNaN(y) THEN NaN
      ELSE IF Less(x, y) THEN y ELSE x

\* !v on a Number or undefined: true for undefined, NaN and 0
Not(v) == v.type = "undefined" \/ v.den = 0 \/ v.num = 0

Zero == Number(0, 1)
Ten == Number(10, 1)

----------------------------------------------------------------------------
(* calculateROI, src/roiCalculator.js lines 139-199 *)

DISENGAGEMENT_PRODUCTIVITY_LOSS_FACTOR == Number(34, 100)
AVG_REPLACEMENT_COST_FACTOR == Number(125, 100)
WORKING_DAYS_PER_YEAR == Number(250, 1)
REVENUE_INCREASE_FACTOR_MIN == Number(2, 100)
REVENUE_INCREASE_FACTOR_MAX == Number(5, 100)

\* the replacement factor left out
costPerReplacement_noFactor(data) ==
  data.avgAnnualSalary

costPerReplacement(data) ==
  Mul(data.avgAnnualSalary, AVG_REPLACEMENT_COST_FACTOR)

totalTurnoverCost(data) ==
  Mul(data.employeesWhoLeft, costPerReplacement(data))

\* the score itself taken as the influence factor
disengagementInfluenceFactor_score(data) ==
  Div(data.engagementScore, Ten)

\* the operands of the subtraction exchanged
disengagementInfluenceFactor_negated(data) ==
  Div(Sub(data.engagementScore, Ten), Ten)

disengagementInfluenceFactor(data) ==
  Div(Sub(Ten, data.engagementScore), Ten)

\* calendar days instead of working days
avgDailySalary_calendar(data) ==
  Div(data.avgAnnualSalary, Number(365, 1))

avgDailySalary(data) ==
  Div(data.avgAnnualSalary, WORKING_DAYS_PER_YEAR)

productivityLossCost(data) ==
  Mul(Mul(Mul(data.numEmployees, data.avgAnnualSalary),
          disengagementInfluenceFactor(data)),
      DISENGAGEMENT_PRODUCTIVITY_LOSS_FACTOR)

absenteeismCost(data) ==
  Mul(Mul(Mul(data.numEmployees, data.avgExtraAbsenteeismDaysPerEmployee),
          avgDailySalary(data)),
      disengagementInfluenceFactor(data))

totalDisengagementCost(data) ==
  Add(productivityLossCost(data), absenteeismCost(data))

\* the absenteeism part of the disengagement cost left out
totalHiddenLoss_noAbsenteeism(data) ==
  Add(totalTurnoverCost(data), productivityLossCost(data))

totalHiddenLoss(data) ==
  Add(totalTurnoverCost(data), totalDisengagementCost(data))

\* the one-point improvement without the cap at 10
improvedEngagement1Pt_uncapped(data) ==
  Add(data.engagementScore, Number(1, 1))

improvedEngagement1Pt(data) ==
  MathMin(Ten, Add(data.engagementScore, Number(1, 1)))

newDisengagementInfluenceFactor1Pt(data) ==
  Div(Sub(Ten, improvedEngagement1Pt(data)), Ten)

newProductivityLossCost1Pt(data) ==
  Mul(Mul(Mul(data.numEmployees, data.avgAnnualSalary),
          newDisengagementInfluenceFactor1Pt(data)),
      DISENGAGEMENT_PRODUCTIVITY_LOSS_FACTOR)

newAbsenteeismCost1Pt(data) ==
  Mul(Mul(Mul(data.numEmployees, data.avgExtraAbsenteeismDaysPerEmployee),
          avgDailySalary(data)),
      newDisengagementInfluenceFactor1Pt(data))

newTotalDisengagementCost1Pt(data) ==
  Add(newProductivityLossCost1Pt(data), newAbsenteeismCost1Pt(data))

savings1Pt(data) ==
  Sub(totalDisengagementCost(data), newTotalDisengagementCost1Pt(data))

\* the cap at 10 left out
improvedEngagement2Pt_uncapped(data) ==
  Add(data.engagementScore, Number(2, 1))

improvedEngagement2Pt(data) ==
  MathMin(Ten, Add(data.engagementScore, Number(2, 1)))

newDisengagementInfluenceFactor2Pt(data) ==
  Div(Sub(Ten, improvedEngagement2Pt(data)), Ten)

newProductivityLossCost2Pt(data) ==
  Mul(Mul(Mul(data.numEmployees, data.avgAnnualSalary),
          newDisengagementInfluenceFactor2Pt(data)),
      DISENGAGEMENT_PRODUCTIVITY_LOSS_FACTOR)

newAbsenteeismCost2Pt(data) ==
  Mul(Mul(Mul(data.numEmployees, data.avgExtraAbsenteeismDaysPerEmployee),
          avgDailySalary(data)),
      newDisengagementInfluenceFactor2Pt(data))

newTotalDisengagementCost2Pt(data) ==
  Add(newProductivityLossCost2Pt(data), newAbsenteeismCost2Pt(data))

\* the operands of the subtraction exchanged
savings2Pt_swapped(data) ==
  Sub(newTotalDisengagementCost2Pt(data), totalDisengagementCost(data))

savings2Pt(data) ==
  Sub(totalDisengagementCost(data), newTotalDisengagementCost2Pt(data))

potentialRevenueIncreaseMin(data) ==
  Mul(Mul(data.annualRevenue, REVENUE_INCREASE_FACTOR_MIN),
      Div(Add(data.engagementScore, Number(1, 1)), Ten))

\* the improved score capped at 10, as the savings do
potentialRevenueIncreaseMax_capped(data) ==
  Mul(Mul(data.annualRevenue, REVENUE_INCREASE_FACTOR_MAX),
      Div(MathMin(Ten, Add(data.engagementScore, Number(2, 1))), Ten))

\* the two points subtracted instead of added
potentialRevenueIncreaseMax_minus(data) ==
  Mul(Mul(data.annualRevenue, REVENUE_INCREASE_FACTOR_MAX),
      Div(Sub(data.engagementScore, Number(2, 1)), Ten))

potentialRevenueIncreaseMax(data) ==
  Mul(Mul(data.annualRevenue, REVENUE_INCREASE_FACTOR_MAX),
      Div(Add(data.engagementScore, Number(2, 1)), Ten))

\* a field read from a name that does not exist
calculateROI_undefinedField(data) ==
  [totalTurnoverCost           |-> totalTurnoverCost(data),
   totalDisengagementCost      |-> totalDisengagementCost(data),
   totalAbsenteeismCost        |-> undefined,
   totalHiddenLoss             |-> totalHiddenLoss(data),
   potentialSavingsMin         |-> MathMax(Zero, savings1Pt(data)),
   potentialSavingsMax         |-> MathMax(Zero, savings2Pt(data)),
   potentialRevenueIncreaseMin |-> potentialRevenueIncreaseMin(data),
   potentialRevenueIncreaseMax |-> potentialRevenueIncreaseMax(data)]

calculateROI(data) ==
  [totalTurnoverCost           |-> totalTurnoverCost(data),
   totalDisengagementCost      |-> totalDisengagementCost(data),
   totalAbsenteeismCost        |-> absenteeismCost(data),
   totalHiddenLoss             |-> totalHiddenLoss(data),
   potentialSavingsMin         |-> MathMax(Zero, savings1Pt(data)),
   potentialSavingsMax         |-> MathMax(Zero, savings2Pt(data)),
   potentialRevenueIncreaseMin |-> potentialRevenueIncreaseMin(data),
   potentialRevenueIncreaseMax |-> potentialRevenueIncreaseMax(data)]

----------------------------------------------------------------------------
(* The copies of calculateROI in src/backend.js: lines 199-259 (first      *)
(* program) and 818-878 (second program), each translated from its own     *)
(* text.  The names of the source's constants are those of the operators   *)
(* above, so the locals carry shortened names.                             *)

calculateROI_backend1(data) ==
  LET numEmployees == data.numEmployees
      avgAnnualSalary == data.avgAnnualSalary
      annualRevenue == data.annualRevenue
      employeesWhoLeft == data.employeesWhoLeft
      avgExtraAbsenteeismDaysPerEmployee ==
        data.avgExtraAbsenteeismDaysPerEmployee
      engagementScore == data.engagementScore
      LOSS_FACTOR == Number(34, 100)
      REPLACEMENT_COST_FACTOR == Number(125, 100)
      WORKING_DAYS == Number(250, 1)
      FACTOR_MIN == Number(2, 100)
      FACTOR_MAX == Number(5, 100)
      perReplacement == Mul(avgAnnualSalary, REPLACEMENT_COST_FACTOR)
      turnoverCost == Mul(employeesWhoLeft, perReplacement)
      influenceFactor == Div(Sub(Ten, engagementScore), Ten)
      dailySalary == Div(avgAnnualSalary, WORKING_DAYS)
      productivityLoss ==
        Mul(Mul(Mul(numEmployees, avgAnnualSalary), influenceFactor),
            LOSS_FACTOR)
      absenteeism ==
        Mul(Mul(Mul(numEmployees, avgExtraAbsenteeismDaysPerEmployee),
                dailySalary),
            influenceFactor)
      disengagementCost == Add(productivityLoss, absenteeism)
      hiddenLoss == Add(turnoverCost, disengagementCost)
      improved1Pt == MathMin(Ten, Add(engagementScore, Number(1, 1)))
      influenceFactor1Pt == Div(Sub(Ten, improved1Pt), Ten)
      productivityLoss1Pt ==
        Mul(Mul(Mul(numEmployees, avgAnnualSalary), influenceFactor1Pt),
            LOSS_FACTOR)
      absenteeism1Pt ==
        Mul(Mul(Mul(numEmployees, avgExtraAbsenteeismDaysPerEmployee),
                dailySalary),
            influenceFactor1Pt)
      disengagementCost1Pt == Add(productivityLoss1Pt, absenteeism1Pt)
      saved1Pt == Sub(disengagementCost, disengagementCost1Pt)
      improved2Pt == MathMin(Ten, Add(engagementScore, Number(2, 1)))
      influenceFactor2Pt == Div(Sub(Ten, improved2Pt), Ten)
      productivityLoss2Pt ==
        Mul(Mul(Mul(numEmployees, avgAnnualSalary), influenceFactor2Pt),
            LOSS_FACTOR)
      absenteeism2Pt ==
        Mul(Mul(Mul(numEmployees, avgExtraAbsenteeismDaysPerEmployee),
                dailySalary),
            influenceFactor2Pt)
      disengagementCost2Pt == Add(productivityLoss2Pt, absenteeism2Pt)
      saved2Pt == Sub(disengagementCost, disengagementCost2Pt)
      revenueIncreaseMin ==
        Mul(Mul(annualRevenue, FACTOR_MIN),
            Div(Add(engagementScore, Number(1, 1)), Ten))
      revenueIncreaseMax ==
        Mul(Mul(annualRevenue, FACTOR_MAX),
            Div(Add(engagementScore, Number(2, 1)), Ten))
  IN  [totalTurnoverCost           |-> turnoverCost,
       totalDisengagementCost      |-> disengagementCost,
       totalAbsenteeismCost        |-> absenteeism,
       totalHiddenLoss             |-> hiddenLoss,
       potentialSavingsMin         |-> MathMax(Zero, saved1Pt),
       potentialSavingsMax         |-> MathMax(Zero, saved2Pt),
       potentialRevenueIncreaseMin |-> revenueIncreaseMin,
       potentialRevenueIncreaseMax |-> revenueIncreaseMax]

\* the copy of the second program left at an older revenue factor
calculateROI_backend2_oldFactor(data) ==
  LET numEmployees == data.numEmployees
      avgAnnualSalary == data.avgAnnualSalary
      annualRevenue == data.annualRevenue
      employeesWhoLeft == data.employeesWhoLeft
      avgExtraAbsenteeismDaysPerEmployee ==
        data.avgExtraAbsenteeismDaysPerEmployee
      engagementScore == data.engagementScore
      LOSS_FACTOR == Number(34, 100)
      REPLACEMENT_COST_FACTOR == Number(125, 100)
      WORKING_DAYS == Number(250, 1)
      FACTOR_MIN == Number(2, 100)
      FACTOR_MAX == Number(4, 100)
      perReplacement == Mul(avgAnnualSalary, REPLACEMENT_COST_FACTOR)
      turnoverCost == Mul(employeesWhoLeft, perReplacement)
      influenceFactor == Div(Sub(Ten, engagementScore), Ten)
      dailySalary == Div(avgAnnualSalary, WORKING_DAYS)
      productivityLoss ==
        Mul(Mul(Mul(numEmployees, avgAnnualSalary), influenceFactor),
            LOSS_FACTOR)
      absenteeism ==
        Mul(Mul(Mul(numEmployees, avgExtraAbsenteeismDaysPerEmployee),
                dailySalary),
            influenceFactor)
      disengagementCost == Add(productivityLoss, absenteeism)
      hiddenLoss == Add(turnoverCost, disengagementCost)
      improved1Pt == MathMin(Ten, Add(engagementScore, Number(1, 1)))
      influenceFactor1Pt == Div(Sub(Ten, improved1Pt), Ten)
      productivityLoss1Pt ==
        Mul(Mul(Mul(numEmployees, avgAnnualSalary), influenceFactor1Pt),
            LOSS_FACTOR)
      absenteeism1Pt ==
        Mul(Mul(Mul(numEmployees, avgExtraAbsenteeismDaysPerEmployee),
                dailySalary),
            influenceFactor1Pt)
      disengagementCost1Pt == Add(productivityLoss1Pt, absenteeism1Pt)
      saved1Pt == Sub(disengagementCost, disengagementCost1Pt)
      improved2Pt == MathMin(Ten, Add(engagementScore, Number(2, 1)))
      influenceFactor2Pt == Div(Sub(Ten, improved2Pt), Ten)
      productivityLoss2Pt ==
        Mul(Mul(Mul(numEmployees, avgAnnualSalary), influenceFactor2Pt),
            LOSS_FACTOR)
      absenteeism2Pt ==
        Mul(Mul(Mul(numEmployees, avgExtraAbsenteeismDaysPerEmployee),
                dailySalary),
            influenceFactor2Pt)
      disengagementCost2Pt == Add(productivityLoss2Pt, absenteeism2Pt)
      saved2Pt == Sub(disengagementCost, disengagementCost2Pt)
      revenueIncreaseMin ==
        Mul(Mul(annualRevenue, FACTOR_MIN),
            Div(Add(engagementScore, Number(1, 1)), Ten))
      revenueIncreaseMax ==
        Mul(Mul(annualRevenue, FACTOR_MAX),
            Div(Add(engagementScore, Number(2, 1)), Ten))
  IN  [totalTurnoverCost           |-> turnoverCost,
       totalDisengagementCost      |-> disengagementCost,
       totalAbsenteeismCost        |-> absenteeism,
       totalHiddenLoss             |-> hiddenLoss,
       potentialSavingsMin         |-> MathMax(Zero, saved1Pt),
       potentialSavingsMax         |-> MathMax(Zero, saved2Pt),
       potentialRevenueIncreaseMin |-> revenueIncreaseMin,
       potentialRevenueIncreaseMax |-> revenueIncreaseMax]

calculateROI_backend2(data) ==
  LET numEmployees == data.numEmployees
      avgAnnualSalary == data.avgAnnualSalary
      annualRevenue == data.annualRevenue
      employeesWhoLeft == data.employeesWhoLeft
      avgExtraAbsenteeismDaysPerEmployee ==
        data.avgExtraAbsenteeismDaysPerEmployee
      engagementScore == data.engagementScore
      LOSS_FACTOR == Number(34, 100)
      REPLACEMENT_COST_FACTOR == Number(125, 100)
      WORKING_DAYS == Number(250, 1)
      FACTOR_MIN == Number(2, 100)
      FACTOR_MAX == Number(5, 100)
      perReplacement == Mul(avgAnnualSalary, REPLACEMENT_COST_FACTOR)
      turnoverCost == Mul(employeesWhoLeft, perReplacement)
      influenceFactor == Div(Sub(Ten, engagementScore), Ten)
      dailySalary == Div(avgAnnualSalary, WORKING_DAYS)
      productivityLoss ==
        Mul(Mul(Mul(numEmployees, avgAnnualSalary), influenceFactor),
            LOSS_FACTOR)
      absenteeism ==
        Mul(Mul(Mul(numEmployees, avgExtraAbsenteeismDaysPerEmployee),
                dailySalary),
            influenceFactor)
      disengagementCost == Add(productivityLoss, absenteeism)
      hiddenLoss == Add(turnoverCost, disengagementCost)
      improved1Pt == MathMin(Ten, Add(engagementScore, Number(1, 1)))
      influenceFactor1Pt == Div(Sub(Ten, improved1Pt), Ten)
      productivityLoss1Pt ==
        Mul(Mul(Mul(numEmployees, avgAnnualSalary), influenceFactor1Pt),
            LOSS_FACTOR)
      absenteeism1Pt ==
        Mul(Mul(Mul(numEmployees, avgExtraAbsenteeismDaysPerEmployee),
                dailySalary),
            influenceFactor1Pt)
      disengagementCost1Pt == Add(productivityLoss1Pt, absenteeism1Pt)
      saved1Pt == Sub(disengagementCost, disengagementCost1Pt)
      improved2Pt == MathMin(Ten, Add(engagementScore, Number(2, 1)))
      influenceFactor2Pt == Div(Sub(Ten, improved2Pt), Ten)
      productivityLoss2Pt ==
        Mul(Mul(Mul(numEmployees, avgAnnualSalary), influenceFactor2Pt),
            LOSS_FACTOR)
      absenteeism2Pt ==
        Mul(Mul(Mul(numEmployees, avgExtraAbsenteeismDaysPerEmployee),
                dailySalary),
            influenceFactor2Pt)
      disengagementCost2Pt == Add(productivityLoss2Pt, absenteeism2Pt)
      saved2Pt == Sub(disengagementCost, disengagementCost2Pt)
      revenueIncreaseMin ==
        Mul(Mul(annualRevenue, FACTOR_MIN),
            Div(Add(engagementScore, Number(1, 1)), Ten))
      revenueIncreaseMax ==
        Mul(Mul(annualRevenue, FACTOR_MAX),
            Div(Add(engagementScore, Number(2, 1)), Ten))
  IN  [totalTurnoverCost           |-> turnoverCost,
       totalDisengagementCost      |-> disengagementCost,
       totalAbsenteeismCost        |-> absenteeism,
       totalHiddenLoss             |-> hiddenLoss,
       potentialSavingsMin         |-> MathMax(Zero, saved1Pt),
       potentialSavingsMax         |-> MathMax(Zero, saved2Pt),
       potentialRevenueIncreaseMin |-> revenueIncreaseMin,
       potentialRevenueIncreaseMax |-> revenueIncreaseMax]

\* The estimator of a program.
calculateROIOf(srv, data) ==
  CASE srv = "backend.js#1" -> calculateROI_backend1(data)
    [] srv = "backend.js#2" -> calculateROI_backend2(data)
    [] OTHER -> calculateROI(data)

----------------------------------------------------------------------------
(* The estimator called on its own: one call per input *)

VARIABLES data, result, called

\* The state of one running server (used by the handler specification below)
VARIABLES server, running, reqs, store, outbox

\* What a process keeps between requests: the models registered after
\* start-up, and the number of times the process was started again
VARIABLES models, restarts

\* The rate limiter of a process, followed for one IP address: the entry of
\* its store (the hits counted in the current window, and the number of the
\* window), and the requests that reached each handler in that window
VARIABLES hits, handled

vars == <<data, result, called, server, running, reqs, store, outbox,
          models, restarts, hits, handled>>

\* The routes of the model: the four submission routes, GET
\* /api/culture-quiz ("quizList") and GET /api/culture-quiz-emails
\* ("listEmails").
Routes == {"contact", "roi", "quiz", "quizEmail", "quizList", "listEmails"}

\* The worked example of the specification.
ExampleInput ==
  [numEmployees |-> Number(100, 1),
   avgAnnualSalary |-> Number(600000, 1),
   annualRevenue |-> Number(50000000, 1),
   employeesWhoLeft |-> Number(10, 1),
   avgExtraAbsenteeismDaysPerEmployee |-> Number(5, 1),
   engagementScore |-> Number(6, 1)]

\* Inputs of the estimator: a grid that reaches below and above every range
\* of the data model, with engagement scores in steps of one half.
ROIInputs ==
  [numEmployees : {Number(k, 1) : k \in 0..MaxEmployees},
   avgAnnualSalary : {Number(1000 * k, 1) : k \in -1..MaxSalaryUnits},
   annualRevenue : {Number(10000 * k, 1) : k \in -1..MaxRevenueUnits},
   employeesWhoLeft : {Number(k, 1) : k \in -1..MaxEmployees},
   avgExtraAbsenteeismDaysPerEmployee :
       {Number(k, 2) : k \in -1..(2 * MaxAbsentDays)},
   engagementScore : {Number(k, 2) : k \in 1..MaxHalfScore}]
  \cup {ExampleInput}

NoResult ==
  [totalTurnoverCost |-> undefined, totalDisengagementCost |-> undefined,
   totalAbsenteeismCost |-> undefined, totalHiddenLoss |-> undefined,
   potentialSavingsMin |-> undefined, potentialSavingsMax |-> undefined,
   potentialRevenueIncreaseMin |-> undefined,
   potentialRevenueIncreaseMax |-> undefined]

InitROI ==
  /\ data \in ROIInputs
  /\ result = NoResult
  /\ called = FALSE
  /\ server = "roiCalculator.js"
  /\ running = TRUE
  /\ reqs = << >>
  /\ store = << >>
  /\ outbox = << >>
  /\ models = {}
  /\ restarts = 0
  /\ hits = [totalHits |-> 0, resetTime |-> 0]
  /\ handled = [e \in Routes |-> 0]

\* const calculatedResults = calculateROI(data)
Calculate ==
  /\ ~called
  /\ result' = calculateROI(data)
  /\ called' = TRUE
  /\ UNCHANGED <<data, server, running, reqs, store, outbox>>
  /\ UNCHANGED <<models, restarts, hits, handled>>

NextROI == Calculate

SpecROI == InitROI /\ [][NextROI]_vars

----------------------------------------------------------------------------
(* The submission handlers.  POST /api/roi-calculator:                      *)
(* src/roiCalculator.js 202-304 and the copies of src/backend.js 329-432   *)
(* (first program) and 945-1043 (second program).  POST /api/contact:      *)
(* src/server.js 112-173, src/backend.js 266-327 and 885-942.              *)
(* POST /api/culture-quiz-results and /api/culture-quiz-email:             *)
(* src/backend.js 1046-1172 and 1315-1415 (second program only).           *)

\* The four programs of the repository.
Servers == {"server.js", "roiCalculator.js", "backend.js#1", "backend.js#2"}

\* The routes each program registers.
Serves(srv, endpoint) ==
  CASE srv = "server.js" -> endpoint = "contact"
    [] srv = "roiCalculator.js" -> endpoint = "roi"
    [] srv = "backend.js#1" -> endpoint \in {"contact", "roi"}
    [] srv = "backend.js#2" -> endpoint \in Routes

\* The path of a route, as its sequence of segments.
Path(endpoint) ==
  CASE endpoint = "contact" -> <<"api", "contact">>
    [] endpoint = "roi" -> <<"api", "roi-calculator">>
    [] endpoint = "quiz" -> <<"api", "culture-quiz-results">>
    [] endpoint = "quizEmail" -> <<"api", "culture-quiz-email">>
    [] endpoint = "quizList" -> <<"api", "culture-quiz">>
    [] endpoint = "listEmails" -> <<"api", "culture-quiz-emails">>

\* rateLimit({ max })
LimiterMax == 10

\* app.use(path, limiter): the paths the limiter is mounted on.
LimiterMounts(srv) ==
  CASE srv = "server.js" -> {<<"api", "contact">>}
    [] srv = "roiCalculator.js" -> {<<"api", "roi-calculator">>}
    [] srv = "backend.js#1" ->
          {<<"api", "contact">>, <<"api", "roi-calculator">>}
    [] srv = "backend.js#2" ->
          {<<"api", "contact">>, <<"api", "roi-calculator">>,
           <<"api", "culture-quiz">>}

\* A middleware mounted on a path runs for the requests whose path begins
\* with the segments of the mount path.
PathMatches(mount, path) ==
  /\ Len(mount) <= Len(path)
  /\ SubSeq(path, 1, Len(mount)) = mount

\* The requests of a route pass through the limiter.
Limited(srv, endpoint) ==
  \E mount \in LimiterMounts(srv) : PathMatches(mount, Path(endpoint))

\* every copy awaiting the email before it answers
RespondsBeforeEmail_never(srv) == FALSE

\* Only the second program of backend.js answers before it sends the email.
RespondsBeforeEmail(srv) == srv = "backend.js#2"

\* A request body in the data-model ranges.  Numeric fields are Numbers or
\* undefined (absent from the JSON body); email and phoneNumber are strings,
\* "" standing for an absent or empty field (both are falsy for !email).
BaseBody ==
  [numEmployees |-> Number(2, 1),
   avgAnnualSalary |-> Number(1000, 1),
   annualRevenue |-> Number(10000, 1),
   employeesWhoLeft |-> Number(1, 1),
   avgExtraAbsenteeismDaysPerEmployee |-> Number(1, 1),
   engagementScore |-> Number(6, 1),
   email |-> "Lead@Acme.in",
   phoneNumber |-> "9876543210"]

\* The request bodies of the model: the base body and bodies that leave the
\* data-model ranges, or sit on their boundary, in one or two fields.
RequestBodies ==
  {BaseBody,
   [BaseBody EXCEPT !.engagementScore = Number(10, 1)],
   [BaseBody EXCEPT !.avgAnnualSalary = Zero],
   [BaseBody EXCEPT !.annualRevenue = Zero],
   [BaseBody EXCEPT !.numEmployees = undefined],
   [BaseBody EXCEPT !.numEmployees = Number(1, 2),
                    !.employeesWhoLeft = Zero],
   [BaseBody EXCEPT !.avgAnnualSalary = Number(-1000, 1)],
   [BaseBody EXCEPT !.annualRevenue = Number(-10000, 1)],
   [BaseBody EXCEPT !.employeesWhoLeft = Number(3, 1)],
   [BaseBody EXCEPT !.employeesWhoLeft = Number(-1, 1)],
   [BaseBody EXCEPT !.employeesWhoLeft = undefined],
   [BaseBody EXCEPT !.avgExtraAbsenteeismDaysPerEmployee = Number(-1, 1)],
   [BaseBody EXCEPT !.avgExtraAbsenteeismDaysPerEmployee = undefined],
   [BaseBody EXCEPT !.engagementScore = Number(1, 2)],
   [BaseBody EXCEPT !.engagementScore = Number(11, 1)],
   [BaseBody EXCEPT !.engagementScore = undefined],
   [BaseBody EXCEPT !.email = ""],
   [BaseBody EXCEPT !.email = "not-an-email"],
   [BaseBody EXCEPT !.phoneNumber = "12345"],
   [BaseBody EXCEPT !.phoneNumber = " 9876543210 "]}

\* The six fields the handler passes to calculateROI.
ROIInputOf(body) ==
  [numEmployees |-> body.numEmployees,
   avgAnnualSalary |-> body.avgAnnualSalary,
   annualRevenue |-> body.annualRevenue,
   employeesWhoLeft |-> body.employeesWhoLeft,
   avgExtraAbsenteeismDaysPerEmployee |->
       body.avgExtraAbsenteeismDaysPerEmployee,
   engagementScore |-> body.engagementScore]

\* the upper bound of the score left unchecked
ValidationError_noUpperBound(body) ==
  IF \/ Not(body.numEmployees) \/ Not(body.avgAnnualSalary)
     \/ Not(body.annualRevenue)
     \/ body.email = "" \/ body.phoneNumber = ""
  THEN "All required fields must be provided"
  ELSE IF Greater(body.employeesWhoLeft, body.numEmployees)
  THEN "Number of employees who left cannot be more than total employees"
  ELSE IF Less(body.engagementScore, Number(1, 1))
  THEN "Engagement score must be between 1 and 10"
  ELSE ""

\* The handler's validation: the error message of the first failing test,
\* "" when the body passes.
ValidationError(body) ==
  IF \/ Not(body.numEmployees) \/ Not(body.avgAnnualSalary)
     \/ Not(body.annualRevenue)
     \/ body.email = "" \/ body.phoneNumber = ""
  THEN "All required fields must be provided"
  ELSE IF Greater(body.employeesWhoLeft, body.numEmployees)
  THEN "Number of employees who left cannot be more than total employees"
  ELSE IF \/ Less(body.engagementScore, Number(1, 1))
          \/ Greater(body.engagementScore, Ten)
  THEN "Engagement score must be between 1 and 10"
  ELSE ""

\* The validation of the first program of backend.js (lines 343-354).
ValidationError_backend1(body) ==
  IF \/ Not(body.numEmployees) \/ Not(body.avgAnnualSalary)
     \/ Not(body.annualRevenue)
     \/ body.email = "" \/ body.phoneNumber = ""
  THEN "All required fields must be provided"
  ELSE IF Greater(body.employeesWhoLeft, body.numEmployees)
  THEN "Number of employees who left cannot be more than total employees"
  ELSE IF \/ Less(body.engagementScore, Number(1, 1))
          \/ Greater(body.engagementScore, Ten)
  THEN "Engagement score must be between 1 and 10"
  ELSE ""

\* The validation of the second program of backend.js (lines 958-969).
ValidationError_backend2(body) ==
  IF \/ Not(body.numEmployees) \/ Not(body.avgAnnualSalary)
     \/ Not(body.annualRevenue)
     \/ body.email = "" \/ body.phoneNumber = ""
  THEN "All required fields must be provided"
  ELSE IF Greater(body.employeesWhoLeft, body.numEmployees)
  THEN "Number of employees who left cannot be more than total employees"
  ELSE IF \/ Less(body.engagementScore, Number(1, 1))
          \/ Greater(body.engagementScore, Ten)
  THEN "Engagement score must be between 1 and 10"
  ELSE ""

\* The validation of a program.
ValidationErrorOf(srv, body) ==
  CASE srv = "backend.js#1" -> ValidationError_backend1(body)
    [] srv = "backend.js#2" -> ValidationError_backend2(body)
    [] OTHER -> ValidationError(body)

\* Schema setters of the string fields, on the strings of the model.
Lowercase(str) == IF str = "Lead@Acme.in" THEN "lead@acme.in" ELSE str

Trim(str) == IF str = " 9876543210 " THEN "9876543210" ELSE str

\* match: /^\w+([.-]?\w+)*@\w+([.-]?\w+)*(\.\w{2,3})+$/
EmailMatches(str) == str \in {"lead@acme.in", "Lead@Acme.in"}

\* match: /^[0-9]{10,15}$/
PhoneMatches(str) == str = "9876543210"

\* the revenue stored as the salary
ROIDocument_salarySlip(i, body, calculatedResults) ==
  [collection |-> "ROICalculator", req |-> i,
   numEmployees |-> body.numEmployees,
   avgAnnualSalary |-> body.annualRevenue,
   annualRevenue |-> body.annualRevenue,
   employeesWhoLeft |-> body.employeesWhoLeft,
   avgExtraAbsenteeismDaysPerEmployee |->
       body.avgExtraAbsenteeismDaysPerEmployee,
   engagementScore |-> body.engagementScore,
   email |-> Lowercase(Trim(body.email)),
   phoneNumber |-> Trim(body.phoneNumber),
   calculatedResults |-> calculatedResults]

\* new ROICalculator({...}): the document built from the body and the result
\* (req is the request that built it)
ROIDocument(i, body, calculatedResults) ==
  [collection |-> "ROICalculator", req |-> i,
   numEmployees |-> body.numEmployees,
   avgAnnualSalary |-> body.avgAnnualSalary,
   annualRevenue |-> body.annualRevenue,
   employeesWhoLeft |-> body.employeesWhoLeft,
   avgExtraAbsenteeismDaysPerEmployee |->
       body.avgExtraAbsenteeismDaysPerEmployee,
   engagementScore |-> body.engagementScore,
   email |-> Lowercase(Trim(body.email)),
   phoneNumber |-> Trim(body.phoneNumber),
   calculatedResults |-> calculatedResults]

\* { type: Number, required: true }: present and castable to a number
RequiredNumber(v) == v.type = "number" /\ ~IsNaN(v)

\* Validation of roiCalculatorSchema, run by save().
SchemaValid(doc) ==
  /\ RequiredNumber(doc.numEmployees)
  /\ LessEq(Number(1, 1), doc.numEmployees)
  /\ RequiredNumber(doc.avgAnnualSalary)
  /\ LessEq(Zero, doc.avgAnnualSalary)
  /\ RequiredNumber(doc.annualRevenue)
  /\ LessEq(Zero, doc.annualRevenue)
  /\ RequiredNumber(doc.employeesWhoLeft)
  /\ LessEq(Zero, doc.employeesWhoLeft)
  /\ RequiredNumber(doc.avgExtraAbsenteeismDaysPerEmployee)
  /\ LessEq(Zero, doc.avgExtraAbsenteeismDaysPerEmployee)
  /\ RequiredNumber(doc.engagementScore)
  /\ LessEq(Number(1, 1), doc.engagementScore)
  /\ LessEq(doc.engagementScore, Ten)
  /\ doc.email # "" /\ EmailMatches(doc.email)
  /\ doc.phoneNumber # "" /\ PhoneMatches(doc.phoneNumber)
  /\ \A f \in DOMAIN doc.calculatedResults :
        RequiredNumber(doc.calculatedResults[f])

\* mailOptions of the notification (req is the request that sends it)
MailOptions(i, replyTo) ==
  [to |-> "info@onethrive.in", replyTo |-> replyTo, req |-> i]

----------------------------------------------------------------------------
(* POST /api/contact *)

\* activityType is modelled by its kind: "absent", "array" (an array of
\* enum values) or "string" (a single enum value sent as a string).
ContactBodies ==
  {[fullName |-> "Asha", workEmail |-> "Lead@Acme.in",
    activityType |-> "array"],
   [fullName |-> "", workEmail |-> "Lead@Acme.in", activityType |-> "array"],
   [fullName |-> "Asha", workEmail |-> "", activityType |-> "absent"],
   [fullName |-> "Asha", workEmail |-> "not-an-email",
    activityType |-> "absent"],
   [fullName |-> "Asha", workEmail |-> "Lead@Acme.in",
    activityType |-> "string"]}

ContactValidationError(body) ==
  IF body.fullName = "" \/ body.workEmail = ""
  THEN "Full name and email are required"
  ELSE ""

\* new Contact({...}); a [String] path casts every value to an array
ContactDocument(i, body) ==
  [collection |-> "Contact", req |-> i,
   fullName |-> Trim(body.fullName),
   workEmail |-> Lowercase(Trim(body.workEmail)),
   activityType |-> "array"]

\* Validation of contactSchema, run by save().
ContactSchemaValid(doc) ==
  /\ doc.fullName # ""
  /\ doc.workEmail # "" /\ EmailMatches(doc.workEmail)

\* formatActivityTypes(activities): activities.map throws on a non-empty
\* value that is not an array.
formatActivityTypesThrows(activities) == activities = "string"

----------------------------------------------------------------------------
(* POST /api/culture-quiz-results *)

\* Math.round(x): the nearest integer, halves rounded up
MathRound(x) ==
  LET y == ToNumber(x)
  IN  IF IsNaN(y) THEN NaN
      ELSE Number((2 * y.num + y.den) \div (2 * y.den), 1)

NoCultureLevel ==
  [present |-> FALSE, level |-> "", description |-> "absent", cta |-> ""]

\* description is modelled by its kind: "absent", "array" or "string".
BaseCultureLevel ==
  [present |-> TRUE, level |-> "Thriving", description |-> "array",
   cta |-> "Book a call"]

\* answers is modelled by its kind: "absent", "object" or "string".
BaseQuizBody ==
  [email |-> "Lead@Acme.in", answers |-> "object",
   totalScore |-> Number(77, 1), totalQuestions |-> Number(10, 1),
   answeredCount |-> Number(9, 1), cultureLevel |-> BaseCultureLevel]

QuizBodies ==
  {BaseQuizBody,
   [BaseQuizBody EXCEPT !.totalScore = undefined],
   [BaseQuizBody EXCEPT !.email = "not-an-email"],
   [BaseQuizBody EXCEPT !.answers = "string"],
   [BaseQuizBody EXCEPT !.cultureLevel = NoCultureLevel],
   [BaseQuizBody EXCEPT !.answeredCount = Number(11, 1)],
   [BaseQuizBody EXCEPT !.cultureLevel.cta = ""],
   [BaseQuizBody EXCEPT !.cultureLevel.description = "string"]}

\* the validation without the test of the type of answers
QuizValidationError_noAnswersCheck(body) ==
  IF \/ body.email = "" \/ body.answers = "absent"
     \/ body.totalScore.type = "undefined"
     \/ Not(body.totalQuestions) \/ Not(body.answeredCount)
     \/ ~body.cultureLevel.present
  THEN "All required fields must be provided"
  ELSE IF ~EmailMatches(body.email)
  THEN "Please enter a valid email address"
  ELSE IF \/ body.cultureLevel.level = ""
          \/ body.cultureLevel.description = "absent"
          \/ body.cultureLevel.cta = ""
  THEN "Invalid culture level data"
  ELSE ""

QuizValidationError(body) ==
  IF \/ body.email = "" \/ body.answers = "absent"
     \/ body.totalScore.type = "undefined"
     \/ Not(body.totalQuestions) \/ Not(body.answeredCount)
     \/ ~body.cultureLevel.present
  THEN "All required fields must be provided"
  ELSE IF ~EmailMatches(body.email)
  THEN "Please enter a valid email address"
  ELSE IF body.answers # "object"
  THEN "Invalid answers format"
  ELSE IF \/ body.cultureLevel.level = ""
          \/ body.cultureLevel.description = "absent"
          \/ body.cultureLevel.cta = ""
  THEN "Invalid culture level data"
  ELSE ""

scorePercentage(body) ==
  MathRound(Mul(Div(body.totalScore,
                    Mul(body.totalQuestions, Number(14, 1))),
                Number(100, 1)))

completionRate(body) ==
  MathRound(Mul(Div(body.answeredCount, body.totalQuestions),
                Number(100, 1)))

\* new CultureQuiz({...})
CultureQuizDocument(i, body) ==
  [collection |-> "CultureQuiz", req |-> i,
   email |-> Lowercase(Trim(body.email)),
   totalScore |-> body.totalScore,
   totalQuestions |-> body.totalQuestions,
   answeredCount |-> body.answeredCount,
   level |-> body.cultureLevel.level,
   cta |-> body.cultureLevel.cta,
   scorePercentage |-> scorePercentage(body),
   completionRate |-> completionRate(body)]

\* Validation of cultureQuizSchema, run by save().
CultureQuizSchemaValid(doc) ==
  /\ doc.email # "" /\ EmailMatches(doc.email)
  /\ RequiredNumber(doc.totalScore)
  /\ RequiredNumber(doc.totalQuestions)
  /\ RequiredNumber(doc.answeredCount)
  /\ doc.level # "" /\ doc.cta # ""
  /\ RequiredNumber(doc.scorePercentage)
  /\ RequiredNumber(doc.completionRate)

\* The data of the 200 response.
QuizResponseData(body) ==
  [scorePercentage |-> scorePercentage(body),
   completionRate |-> completionRate(body),
   level |-> body.cultureLevel.level]

----------------------------------------------------------------------------
(* POST /api/culture-quiz-email *)

QuizEmailBodies ==
  {[email |-> "Lead@Acme.in"], [email |-> ""], [email |-> "not-an-email"]}

QuizEmailValidationError(body) ==
  IF body.email = "" THEN "Email is required"
  ELSE IF ~EmailMatches(body.email)
  THEN "Please enter a valid email address"
  ELSE ""

\* new CultureQuizEmail({...})
CultureQuizEmailDocument(i, body) ==
  [collection |-> "CultureQuizEmail", req |-> i,
   email |-> Lowercase(Trim(body.email)),
   quizType |-> "culture_quiz"]

\* Validation of cultureQuizEmailSchema, run by save().
CultureQuizEmailSchemaValid(doc) ==
  doc.email # "" /\ EmailMatches(doc.email)

----------------------------------------------------------------------------
(* The handlers *)

Init ==
  /\ data = ExampleInput
  /\ result = NoResult
  /\ called = FALSE
  /\ server \in Servers
  /\ running = TRUE
  /\ reqs = << >>
  /\ store = << >>
  /\ outbox = << >>
  /\ models = {}
  /\ restarts = 0
  /\ hits = [totalHits |-> 0, resetTime |-> 0]
  /\ handled = [e \in Routes |-> 0]

\* A request as it enters its handler.
NewRequest(endpoint, body) ==
  [endpoint |-> endpoint, body |-> body, pc |-> "start",
   computed |-> FALSE, calls |-> 0, calculatedResults |-> NoResult,
   save |-> "none", mail |-> "none",
   status |-> 0, responses |-> 0, error |-> "", results |-> NoResult]

\* return res.status(400).json({ error })
Reject(r, error) ==
  [r EXCEPT !.pc = "done", !.status = 400, !.responses = @ + 1,
            !.error = error]

\* The catch block: res.status(500).json({ error }).  When the response was
\* already sent, json() throws out of the catch block, the handler's promise
\* rejects, and the process exits.
Catch(r) ==
  IF r.responses = 0
  THEN [r EXCEPT !.pc = "done", !.status = 500, !.responses = @ + 1,
                 !.error = "Internal server error. Please try again later."]
  ELSE [r EXCEPT !.pc = "crashed"]

\* The document a handler builds from its request.
Document(i, r) ==
  CASE r.endpoint = "roi" -> ROIDocument(i, r.body, r.calculatedResults)
    [] r.endpoint = "contact" -> ContactDocument(i, r.body)
    [] r.endpoint = "quiz" -> CultureQuizDocument(i, r.body)
    [] r.endpoint = "quizEmail" -> CultureQuizEmailDocument(i, r.body)

\* Schema validation of a document, run by save().
DocumentValid(doc) ==
  CASE doc.collection = "ROICalculator" -> SchemaValid(doc)
    [] doc.collection = "Contact" -> ContactSchemaValid(doc)
    [] doc.collection = "CultureQuiz" -> CultureQuizSchemaValid(doc)
    [] doc.collection = "CultureQuizEmail" -> CultureQuizEmailSchemaValid(doc)

\* The data a handler puts in its 200 response.
ResponseData(r) ==
  CASE r.endpoint = "roi" -> r.calculatedResults
    [] r.endpoint = "quiz" -> QuizResponseData(r.body)
    [] OTHER -> NoResult

\* res.status(200).json({ success: true, ... })
Respond200(r) ==
  [r EXCEPT !.status = 200, !.responses = @ + 1, !.results = ResponseData(r)]

\* Building emailBody throws: formatActivityTypes on a non-array, or
\* cultureLevel.description.map on a string.
EmailBodyThrows(r) ==
  CASE r.endpoint = "contact" -> formatActivityTypesThrows(r.body.activityType)
    [] r.endpoint = "quiz" -> r.body.cultureLevel.description = "string"
    [] OTHER -> FALSE

\* replyTo of the notification
ReplyTo(r) ==
  IF r.endpoint = "contact" THEN r.body.workEmail ELSE r.body.email

\* The handler up to its first await: validation, calculateROI, the
\* document, and the start of roiData.save().
PostRoiCalculator(body) ==
  /\ running
  /\ Serves(server, "roi")
  /\ Len(reqs) < MaxRequests
  /\ IF ValidationErrorOf(server, body) # ""
     THEN reqs' = Append(reqs,
                    Reject(NewRequest("roi", body),
                           ValidationErrorOf(server, body)))
     ELSE reqs' = Append(reqs,
                    [NewRequest("roi", body) EXCEPT
                       !.pc = "save", !.save = "pending",
                       !.computed = TRUE, !.calls = @ + 1,
                       !.calculatedResults =
                          calculateROIOf(server, ROIInputOf(body))])
  /\ UNCHANGED <<data, result, called, server, running, store, outbox>>
  /\ UNCHANGED <<models, restarts, hits, handled>>

\* A handler without a calculation up to its first await: validation, the
\* document, and the start of save().
Submitted(endpoint, body, error) ==
  IF error # ""
  THEN Reject(NewRequest(endpoint, body), error)
  ELSE [NewRequest(endpoint, body) EXCEPT !.pc = "save", !.save = "pending"]

PostContact(body) ==
  /\ running
  /\ Serves(server, "contact")
  /\ Len(reqs) < MaxRequests
  /\ reqs' = Append(reqs,
               Submitted("contact", body, ContactValidationError(body)))
  /\ UNCHANGED <<data, result, called, server, running, store, outbox>>
  /\ UNCHANGED <<models, restarts, hits, handled>>

PostCultureQuizResults(body) ==
  /\ running
  /\ Serves(server, "quiz")
  /\ Len(reqs) < MaxRequests
  /\ reqs' = Append(reqs, Submitted("quiz", body, QuizValidationError(body)))
  /\ UNCHANGED <<data, result, called, server, running, store, outbox>>
  /\ UNCHANGED <<models, restarts, hits, handled>>

PostCultureQuizEmail(body) ==
  /\ running
  /\ Serves(server, "quizEmail")
  /\ Len(reqs) < MaxRequests
  /\ reqs' = Append(reqs,
               Submitted("quizEmail", body, QuizEmailValidationError(body)))
  /\ models' = IF QuizEmailValidationError(body) = ""
               THEN models \cup {"CultureQuizEmail"}
               ELSE models
  /\ UNCHANGED <<data, result, called, server, running, store, outbox>>
  /\ UNCHANGED <<restarts, hits, handled>>

\* The handler from the resolution of save() to its next await or its end,
\* for the request record r and the document doc.  The copies that await the
\* email build emailBody and start transporter.sendMail; the second program
\* of backend.js answers 200, builds emailBody and starts sendEmail without
\* awaiting it.  An exception while emailBody is built reaches the catch
\* block.
AfterSave(i, r, doc) ==
  /\ store' = Append(store, doc)
  /\ IF RespondsBeforeEmail(server)
     THEN IF EmailBodyThrows(r)
          THEN /\ reqs' = [reqs EXCEPT ![i] = Catch(Respond200(r))]
               /\ running' = FALSE
               /\ outbox' = outbox
          ELSE /\ reqs' = [reqs EXCEPT ![i] =
                             [Respond200(r) EXCEPT !.pc = "email",
                                                   !.mail = "pending"]]
               /\ running' = running
               /\ outbox' = Append(outbox, MailOptions(i, ReplyTo(r)))
     ELSE IF EmailBodyThrows(r)
          THEN /\ reqs' = [reqs EXCEPT ![i] = Catch(r)]
               /\ running' = running
               /\ outbox' = outbox
          ELSE /\ reqs' = [reqs EXCEPT ![i] =
                             [r EXCEPT !.pc = "sendMail", !.mail = "pending"]]
               /\ running' = running
               /\ outbox' = Append(outbox, MailOptions(i, ReplyTo(r)))

\* calculatedResults kept in a variable shared by all requests: the document
\* and the response carry the result of the latest request
SaveResolves_sharedResults(i) ==
  /\ running
  /\ i \in DOMAIN reqs
  /\ reqs[i].pc = "save"
  /\ DocumentValid(Document(i, reqs[i]))
  /\ LET r == [reqs[i] EXCEPT
                 !.save = "resolved",
                 !.calculatedResults = reqs[Len(reqs)].calculatedResults]
     IN  AfterSave(i, r, Document(i, r))
  /\ UNCHANGED <<data, result, called, server>>
  /\ UNCHANGED <<models, restarts, hits, handled>>

\* await save() resolves: the document is stored and the handler goes on.
SaveResolves(i) ==
  /\ running
  /\ i \in DOMAIN reqs
  /\ reqs[i].pc = "save"
  /\ DocumentValid(Document(i, reqs[i]))
  /\ LET r == [reqs[i] EXCEPT !.save = "resolved"]
     IN  AfterSave(i, r, Document(i, r))
  /\ UNCHANGED <<data, result, called, server>>
  /\ UNCHANGED <<models, restarts, hits, handled>>

\* the catch block answering with the computed result
SaveRejects_answersResult(i) ==
  /\ running
  /\ i \in DOMAIN reqs
  /\ reqs[i].pc = "save"
  /\ reqs' = [reqs EXCEPT ![i] =
                [Respond200(@) EXCEPT !.pc = "done", !.save = "rejected"]]
  /\ UNCHANGED <<data, result, called, server, running, store, outbox>>
  /\ UNCHANGED <<models, restarts, hits, handled>>

\* the catch block sending the notification all the same
SaveRejects_stillNotifies(i) ==
  /\ running
  /\ i \in DOMAIN reqs
  /\ reqs[i].pc = "save"
  /\ reqs' = [reqs EXCEPT ![i] = [Catch(@) EXCEPT !.save = "rejected"]]
  /\ outbox' = Append(outbox, MailOptions(i, ReplyTo(reqs[i])))
  /\ UNCHANGED <<data, result, called, server, running, store>>
  /\ UNCHANGED <<models, restarts, hits, handled>>

\* await save() rejects (schema validation or a store failure): the catch
\* block answers 500.
SaveRejects(i) ==
  /\ running
  /\ i \in DOMAIN reqs
  /\ reqs[i].pc = "save"
  /\ reqs' = [reqs EXCEPT ![i] = [Catch(@) EXCEPT !.save = "rejected"]]
  /\ UNCHANGED <<data, result, called, server, running, store, outbox>>
  /\ UNCHANGED <<models, restarts, hits, handled>>

\* The send resolves: the awaiting copies answer 200, the second program of
\* backend.js only logs.
MailResolves(i) ==
  /\ running
  /\ i \in DOMAIN reqs
  /\ \/ /\ reqs[i].pc = "sendMail"
        /\ reqs' = [reqs EXCEPT ![i] =
                      [Respond200(@) EXCEPT !.pc = "done", !.mail = "sent"]]
     \/ /\ reqs[i].pc = "email"
        /\ reqs' = [reqs EXCEPT ![i].pc = "done", ![i].mail = "sent"]
  /\ UNCHANGED <<data, result, called, server, running, store, outbox>>
  /\ UNCHANGED <<models, restarts, hits, handled>>

\* the send tried again after a rejection
MailRejects_retry(i) ==
  /\ running
  /\ i \in DOMAIN reqs
  /\ reqs[i].pc \in {"sendMail", "email"}
  /\ Len(outbox) < 2 * MaxRequests
  /\ outbox' = Append(outbox, MailOptions(i, ReplyTo(reqs[i])))
  /\ UNCHANGED <<data, result, called, server, running, reqs, store>>
  /\ UNCHANGED <<models, restarts, hits, handled>>

\* The send rejects: the awaiting copies fall into the catch block and answer
\* 500, the second program of backend.js only logs.
MailRejects(i) ==
  /\ running
  /\ i \in DOMAIN reqs
  /\ \/ /\ reqs[i].pc = "sendMail"
        /\ reqs' = [reqs EXCEPT ![i] = [Catch(@) EXCEPT !.mail = "failed"]]
     \/ /\ reqs[i].pc = "email"
        /\ reqs' = [reqs EXCEPT ![i].pc = "done", ![i].mail = "failed"]
  /\ UNCHANGED <<data, result, called, server, running, store, outbox>>
  /\ UNCHANGED <<models, restarts, hits, handled>>

----------------------------------------------------------------------------
(* GET /api/culture-quiz-emails: src/backend.js 1418-1451 *)

\* req.query of a listing without parameters: page 1, limit 10
NoQuery == [page |-> 1, limit |-> 10]

\* The documents of the collection of CultureQuizEmail.
EmailSubmissions ==
  {store[k] : k \in {j \in DOMAIN store :
                        store[j].collection = "CultureQuizEmail"}}

\* The handler up to its first await: 404 when this process has not
\* registered the model CultureQuizEmail, else the start of find().
GetCultureQuizEmails ==
  /\ running
  /\ Serves(server, "listEmails")
  /\ Len(reqs) < MaxRequests
  /\ IF "CultureQuizEmail" \notin models
     THEN reqs' = Append(reqs,
                    [NewRequest("listEmails", NoQuery) EXCEPT
                       !.pc = "done", !.status = 404, !.responses = @ + 1,
                       !.error = "No email submissions found"])
     ELSE reqs' = Append(reqs,
                    [NewRequest("listEmails", NoQuery) EXCEPT !.pc = "find"])
  /\ UNCHANGED <<data, result, called, server, running, store, outbox>>
  /\ UNCHANGED <<models, restarts, hits, handled>>

\* find() and countDocuments() resolve: 200 with the submissions (the
\* store holds fewer than one page of them).
FindResolves(i) ==
  /\ running
  /\ i \in DOMAIN reqs
  /\ reqs[i].pc = "find"
  /\ reqs' = [reqs EXCEPT ![i] =
                [@ EXCEPT !.pc = "done", !.status = 200, !.responses = @ + 1,
                          !.results = [emails |-> EmailSubmissions,
                                       total |->
                                         Cardinality(EmailSubmissions)]]]
  /\ UNCHANGED <<data, result, called, server, running, store, outbox>>
  /\ UNCHANGED <<models, restarts, hits, handled>>

\* find() or countDocuments() rejects: the catch block answers 500.
FindRejects(i) ==
  /\ running
  /\ i \in DOMAIN reqs
  /\ reqs[i].pc = "find"
  /\ reqs' = [reqs EXCEPT ![i] = Catch(@)]
  /\ UNCHANGED <<data, result, called, server, running, store, outbox>>
  /\ UNCHANGED <<models, restarts, hits, handled>>

Next ==
  \/ \E body \in RequestBodies : PostRoiCalculator(body)
  \/ \E body \in ContactBodies : PostContact(body)
  \/ \E body \in QuizBodies : PostCultureQuizResults(body)
  \/ \E body \in QuizEmailBodies : PostCultureQuizEmail(body)
  \/ \E i \in 1..MaxRequests : SaveResolves(i)
  \/ \E i \in 1..MaxRequests : SaveRejects(i)
  \/ \E i \in 1..MaxRequests : MailResolves(i)
  \/ \E i \in 1..MaxRequests : MailRejects(i)
  \/ GetCultureQuizEmails
  \/ \E i \in 1..MaxRequests : FindResolves(i)
  \/ \E i \in 1..MaxRequests : FindRejects(i)

Spec == Init /\ [][Next]_vars

----------------------------------------------------------------------------
(* The second program of backend.js across restarts of its process: the    *)
(* store keeps its documents, the process loses what it held in memory.    *)

InitListing == Init /\ server = "backend.js#2"

\* The process ends (process.exit, a signal, a redeploy) and is started
\* again: the handlers in flight are gone, and so are the models that were
\* registered after start-up.
Restart ==
  /\ restarts < MaxRestarts
  /\ restarts' = restarts + 1
  /\ running' = TRUE
  /\ models' = {}
  /\ reqs' = [i \in DOMAIN reqs |->
                IF reqs[i].pc \in {"save", "sendMail", "email", "find"}
                THEN [reqs[i] EXCEPT !.pc = "aborted"]
                ELSE reqs[i]]
  /\ UNCHANGED <<data, result, called, server, store, outbox, hits, handled>>

NextListing ==
  \/ \E body \in QuizEmailBodies : PostCultureQuizEmail(body)
  \/ \E i \in 1..MaxRequests : SaveResolves(i)
  \/ \E i \in 1..MaxRequests : SaveRejects(i)
  \/ \E i \in 1..MaxRequests : MailResolves(i)
  \/ \E i \in 1..MaxRequests : MailRejects(i)
  \/ GetCultureQuizEmails
  \/ \E i \in 1..MaxRequests : FindResolves(i)
  \/ \E i \in 1..MaxRequests : FindRejects(i)
  \/ Restart

SpecListing == InitListing /\ [][NextListing]_vars

----------------------------------------------------------------------------
(* The rate limiter in front of the routes, for the requests of one IP     *)
(* address within the limiter's windows.                                   *)

\* The routes followed behind the limiter: the submission routes and the
\* route of the path /api/culture-quiz.
LimiterRoutes == {"contact", "roi", "quiz", "quizEmail", "quizList"}

\* A request arrives on a route: the limiter, where it is mounted, counts
\* the hit and answers 429 beyond max hits in the window; otherwise the
\* request reaches its handler.
Arrive(endpoint) ==
  /\ Serves(server, endpoint)
  /\ handled[endpoint] < MaxHandled
  /\ IF Limited(server, endpoint)
     THEN /\ hits' = [hits EXCEPT !.totalHits =
                        IF @ <= LimiterMax THEN @ + 1 ELSE @]
          /\ handled' = IF hits.totalHits < LimiterMax
                        THEN [handled EXCEPT ![endpoint] = @ + 1]
                        ELSE handled
     ELSE /\ hits' = hits
          /\ handled' = [handled EXCEPT ![endpoint] = @ + 1]
  /\ UNCHANGED <<data, result, called, server, running, reqs, store, outbox>>
  /\ UNCHANGED <<models, restarts>>

\* windowMs has passed: the limiter starts a new window without hits.
WindowExpires ==
  /\ hits.resetTime < MaxWindows
  /\ hits' = [totalHits |-> 0, resetTime |-> hits.resetTime + 1]
  /\ handled' = [e \in Routes |-> 0]
  /\ UNCHANGED <<data, result, called, server, running, reqs, store, outbox>>
  /\ UNCHANGED <<models, restarts>>

NextLimiter ==
  \/ \E endpoint \in LimiterRoutes : Arrive(endpoint)
  \/ WindowExpires

SpecLimiter == Init /\ [][NextLimiter]_vars

----------------------------------------------------------------------------
(* Properties of calculateROI *)

\* The ranges of the ROIInput data model.
ValidROIInput(d) ==
  /\ d.numEmployees.den = 1 /\ LessEq(Number(1, 1), d.numEmployees)
  /\ LessEq(Zero, d.avgAnnualSalary)
  /\ LessEq(Zero, d.annualRevenue)
  /\ LessEq(Zero, d.employeesWhoLeft)
  /\ LessEq(d.employeesWhoLeft, d.numEmployees)
  /\ LessEq(Zero, d.avgExtraAbsenteeismDaysPerEmployee)
  /\ LessEq(Number(1, 1), d.engagementScore)
  /\ LessEq(d.engagementScore, Ten)

\* C1: for every valid input the returned totalHiddenLoss is the sum of the
\* returned totalTurnoverCost and totalDisengagementCost.
C1_HiddenLossIsSum ==
  (called /\ ValidROIInput(data)) =>
     result.totalHiddenLoss =
        Add(result.totalTurnoverCost, result.totalDisengagementCost)

C1_Witness ==
  /\ called /\ ValidROIInput(data)
  /\ Less(Zero, result.totalTurnoverCost)
  /\ Less(Zero, result.totalDisengagementCost)
  /\ Less(result.totalTurnoverCost, result.totalHiddenLoss)
  /\ Less(result.totalDisengagementCost, result.totalHiddenLoss)

\* C2: for every valid input the returned turnover, absenteeism and
\* disengagement costs are the closed formulas of steps 1-5:
\*   turnover = left * salary * 1.25,
\*   absenteeism = n * days * (salary / 250) * ((10 - score) / 10),
\*   disengagement = n * salary * ((10 - score) / 10) * 0.34 + absenteeism.
C2_ReferenceFormulas ==
  (called /\ ValidROIInput(data)) =>
     LET f == Div(Sub(Number(10, 1), data.engagementScore), Number(10, 1))
     IN  /\ result.totalTurnoverCost =
              Mul(Mul(data.employeesWhoLeft, data.avgAnnualSalary),
                  Number(5, 4))
         /\ result.totalAbsenteeismCost =
              Mul(Mul(Mul(data.numEmployees,
                          data.avgExtraAbsenteeismDaysPerEmployee),
                      Div(data.avgAnnualSalary, Number(250, 1))), f)
         /\ result.totalDisengagementCost =
              Add(Mul(Mul(Mul(data.numEmployees, data.avgAnnualSalary), f),
                      Number(17, 50)),
                  result.totalAbsenteeismCost)

C2_Witness ==
  /\ called /\ ValidROIInput(data)
  /\ Less(Zero, result.totalTurnoverCost)
  /\ Less(Zero, result.totalAbsenteeismCost)
  /\ Less(result.totalAbsenteeismCost, result.totalDisengagementCost)
  /\ data.engagementScore.den = 2

\* The disengagement cost of the input with its score raised by delta and
\* capped at 10.
RecomputedDisengagementCost(d, delta) ==
  totalDisengagementCost(
     [d EXCEPT !.engagementScore = MathMin(Ten, Add(@, Number(delta, 1)))])

\* C3: for every valid input, potentialSavingsMin (delta = 1) and
\* potentialSavingsMax (delta = 2) equal max(0, D - D'), D' being the
\* disengagement cost recomputed at min(10, score + delta).
C3_SavingsAreRecomputedDifference ==
  (called /\ ValidROIInput(data)) =>
     /\ result.potentialSavingsMin =
          MathMax(Zero, Sub(result.totalDisengagementCost,
                            RecomputedDisengagementCost(data, 1)))
     /\ result.potentialSavingsMax =
          MathMax(Zero, Sub(result.totalDisengagementCost,
                            RecomputedDisengagementCost(data, 2)))

\* a capped delta: score above 8 with a positive disengagement cost
C3_Witness ==
  /\ called /\ ValidROIInput(data)
  /\ Less(Number(8, 1), data.engagementScore)
  /\ Less(data.engagementScore, Ten)
  /\ Less(Zero, result.potentialSavingsMin)
  /\ Less(Zero, result.totalAbsenteeismCost)

\* C4: for every valid input the revenue increases are
\* revenue * 0.02 * (score + 1) / 10 and revenue * 0.05 * (score + 2) / 10
\* with the uncapped score + delta; at score 10 the max figure is
\* revenue * 0.05 * 1.2, above what a score capped at 10 gives.
C4_RevenueIncreaseUncapped ==
  (called /\ ValidROIInput(data)) =>
     /\ result.potentialRevenueIncreaseMin =
          Div(Mul(Mul(data.annualRevenue, Number(1, 50)),
                  Add(data.engagementScore, Number(1, 1))), Number(10, 1))
     /\ result.potentialRevenueIncreaseMax =
          Div(Mul(Mul(data.annualRevenue, Number(1, 20)),
                  Add(data.engagementScore, Number(2, 1))), Number(10, 1))
     /\ data.engagementScore = Ten =>
          /\ result.potentialRevenueIncreaseMax =
               Mul(Mul(data.annualRevenue, Number(1, 20)), Number(6, 5))
          /\ Less(Zero, data.annualRevenue) =>
               Less(Mul(data.annualRevenue, Number(1, 20)),
                    result.potentialRevenueIncreaseMax)

C4_Witness ==
  /\ called /\ ValidROIInput(data)
  /\ data.engagementScore = Ten
  /\ Less(Zero, data.annualRevenue)
  /\ Less(Mul(data.annualRevenue, Number(1, 20)),
          result.potentialRevenueIncreaseMax)

\* C5: for every valid input both potential savings are >= 0, and
\* potentialSavingsMin <= potentialSavingsMax whenever the score is <= 8.
C5_SavingsNonNegativeAndOrdered ==
  (called /\ ValidROIInput(data)) =>
     /\ LessEq(Zero, result.potentialSavingsMin)
     /\ LessEq(Zero, result.potentialSavingsMax)
     /\ LessEq(data.engagementScore, Number(8, 1)) =>
          LessEq(result.potentialSavingsMin, result.potentialSavingsMax)

C5_Witness ==
  /\ called /\ ValidROIInput(data)
  /\ LessEq(data.engagementScore, Number(8, 1))
  /\ Less(Zero, result.potentialSavingsMin)
  /\ Less(result.potentialSavingsMin, result.potentialSavingsMax)

\* C6: whenever annualRevenue >= 0 and 1 <= score <= 10 (the other fields
\* arbitrary), potentialRevenueIncreaseMin <= potentialRevenueIncreaseMax.
C6_RevenueIncreaseOrdered ==
  (/\ called
   /\ LessEq(Zero, data.annualRevenue)
   /\ LessEq(Number(1, 1), data.engagementScore)
   /\ LessEq(data.engagementScore, Ten)) =>
     LessEq(result.potentialRevenueIncreaseMin,
            result.potentialRevenueIncreaseMax)

\* revenue positive, on an input that is invalid in another field
C6_Witness ==
  /\ called
  /\ ~ValidROIInput(data)
  /\ Less(Zero, data.annualRevenue)
  /\ LessEq(Number(1, 1), data.engagementScore)
  /\ LessEq(data.engagementScore, Ten)
  /\ Less(result.potentialRevenueIncreaseMin,
          result.potentialRevenueIncreaseMax)

\* C7: at score 10 (other fields valid) the disengagement cost, the
\* absenteeism cost and both potential savings are 0 and the hidden loss is
\* the turnover cost.
C7_MaxScoreBoundary ==
  (called /\ ValidROIInput(data) /\ data.engagementScore = Ten) =>
     /\ result.totalDisengagementCost = Zero
     /\ result.totalAbsenteeismCost = Zero
     /\ result.potentialSavingsMin = Zero
     /\ result.potentialSavingsMax = Zero
     /\ result.totalHiddenLoss = result.totalTurnoverCost

C7_Witness ==
  /\ called /\ ValidROIInput(data) /\ data.engagementScore = Ten
  /\ Less(Zero, data.avgAnnualSalary)
  /\ Less(Zero, data.avgExtraAbsenteeismDaysPerEmployee)
  /\ Less(Zero, result.totalHiddenLoss)

ResultFields ==
  {"totalTurnoverCost", "totalDisengagementCost", "totalAbsenteeismCost",
   "totalHiddenLoss", "potentialSavingsMin", "potentialSavingsMax",
   "potentialRevenueIncreaseMin", "potentialRevenueIncreaseMax"}

\* C8: for every valid input all eight fields of the result are >= 0.
C8_ResultNonNegative ==
  (called /\ ValidROIInput(data)) =>
     \A f \in ResultFields : LessEq(Zero, result[f])

C8_Witness ==
  /\ called /\ ValidROIInput(data)
  /\ \A f \in ResultFields : Less(Zero, result[f])

\* C9: the worked example (100 employees, salary 600000, revenue 50000000,
\* 10 left, 5 absenteeism days, score 6) returns turnover 7500000,
\* absenteeism 480000, disengagement 8640000 and hidden loss 16140000.
C9_WorkedExample ==
  (called /\ data = ExampleInput) =>
     /\ result.totalTurnoverCost = Number(7500000, 1)
     /\ result.totalAbsenteeismCost = Number(480000, 1)
     /\ result.totalDisengagementCost = Number(8640000, 1)
     /\ result.totalHiddenLoss = Number(16140000, 1)

C9_Witness ==
  /\ called /\ data = ExampleInput
  /\ result.totalHiddenLoss = Number(16140000, 1)

----------------------------------------------------------------------------
(* Properties of the POST /api/roi-calculator handlers *)

\* C10: the handler never invokes calculateROI on invalid input: every
\* request with a field missing or outside its data-model range is answered
\* with the validation error (400) and no computation takes place for it.
C10_NoComputationOnInvalidInput ==
  \A i \in {j \in DOMAIN reqs : reqs[j].endpoint = "roi"} :
     ~ValidROIInput(ROIInputOf(reqs[i].body)) =>
        (~reqs[i].computed /\ reqs[i].status = 400)

\* The requests of the ROI endpoint.
ROIRequests == {i \in DOMAIN reqs : reqs[i].endpoint = "roi"}

\* The requests of the submission endpoints.
SubmissionRequests == {i \in DOMAIN reqs : reqs[i].endpoint # "listEmails"}

DocsOf(i) == {k \in DOMAIN store : store[k].req = i}

MailsOf(i) == {k \in DOMAIN outbox : outbox[k].req = i}

\* C11: a request with employeesWhoLeft > numEmployees, or with a score
\* below 1 or above 10, is answered 400 and changes nothing: no
\* calculation, no document, no email.
C11_RangeErrorsRejected ==
  \A i \in ROIRequests :
     (\/ Greater(reqs[i].body.employeesWhoLeft, reqs[i].body.numEmployees)
      \/ Less(reqs[i].body.engagementScore, Number(1, 1))
      \/ Greater(reqs[i].body.engagementScore, Ten)) =>
        /\ reqs[i].status = 400 /\ reqs[i].responses = 1
        /\ ~reqs[i].computed /\ reqs[i].calls = 0
        /\ DocsOf(i) = {} /\ MailsOf(i) = {}

C11_Witness ==
  /\ Len(reqs) = 2
  /\ reqs[1].endpoint = "roi" /\ reqs[2].endpoint = "roi"
  /\ Greater(reqs[1].body.employeesWhoLeft, reqs[1].body.numEmployees)
  /\ Greater(reqs[2].body.engagementScore, Ten)
  /\ reqs[1].status = 400 /\ reqs[2].status = 400
  /\ store = << >> /\ outbox = << >>

\* C12: every request whose six fields lie in the data-model ranges
\* (salary 0 and revenue 0 included) and whose contact fields are present
\* passes the validation and reaches calculateROI.
C12_ValidInputAccepted ==
  \A i \in ROIRequests :
     (/\ ValidROIInput(ROIInputOf(reqs[i].body))
      /\ reqs[i].body.email # "" /\ reqs[i].body.phoneNumber # "") =>
        (reqs[i].computed /\ reqs[i].status # 400)

\* C13: in every copy, a submission that was persisted and whose handler
\* has finished was answered 200 with the result, whatever the email send
\* did.
C13_EmailFireAndForget ==
  \A i \in ROIRequests :
     (reqs[i].save = "resolved" /\ reqs[i].pc = "done") =>
        (reqs[i].status = 200 /\
         reqs[i].results = reqs[i].calculatedResults)

\* C14 as stated: when the save fails after calculateROI produced a result
\* for a valid request, the caller still receives that result.
C14_SaveFailureStillAnswersResult ==
  \A i \in ROIRequests :
     (/\ ValidROIInput(ROIInputOf(reqs[i].body))
      /\ reqs[i].computed /\ reqs[i].save = "rejected") =>
        (reqs[i].status = 200 /\
         reqs[i].results = reqs[i].calculatedResults)

\* C14 amended: when the save fails after calculateROI produced a result,
\* the caller receives a 500 error and not the result; nothing is stored
\* and no email is sent for the request.
C14_SaveFailureAnswers500 ==
  \A i \in ROIRequests :
     (reqs[i].computed /\ reqs[i].save = "rejected") =>
        /\ reqs[i].status = 500 /\ reqs[i].responses = 1
        /\ reqs[i].results = NoResult
        /\ DocsOf(i) = {} /\ MailsOf(i) = {}

\* a valid request whose save failed in the store
C14_Witness ==
  \E i \in ROIRequests :
     /\ ValidROIInput(ROIInputOf(reqs[i].body))
     /\ SchemaValid(ROIDocument(i, reqs[i].body, reqs[i].calculatedResults))
     /\ reqs[i].computed /\ reqs[i].save = "rejected"
     /\ reqs[i].status = 500

\* The part of C15 about the results and the six input fields.
ResultsAndInputsAgree(i, d) ==
  /\ reqs[i].results = d.calculatedResults
  /\ d.calculatedResults = calculateROI(ROIInputOf(reqs[i].body))
  /\ ROIInputOf(d) = ROIInputOf(reqs[i].body)

\* C15 as stated: on a 200 the response's results, the stored
\* calculatedResults and calculateROI of the request's six fields are the
\* same value, and the stored document has the request's six input fields
\* and the request's contact fields.
C15_StoredEqualsRequest ==
  \A i \in ROIRequests :
     reqs[i].status = 200 =>
        \E k \in DocsOf(i) :
           /\ ResultsAndInputsAgree(i, store[k])
           /\ store[k].email = reqs[i].body.email
           /\ store[k].phoneNumber = reqs[i].body.phoneNumber

\* C15 amended: as stated, except that the stored email is the request's
\* email trimmed and lowercased and the stored phoneNumber is the request's
\* phoneNumber trimmed.
C15_StoredEqualsNormalisedRequest ==
  \A i \in ROIRequests :
     reqs[i].status = 200 =>
        \E k \in DocsOf(i) :
           /\ ResultsAndInputsAgree(i, store[k])
           /\ store[k].email = Lowercase(Trim(reqs[i].body.email))
           /\ store[k].phoneNumber = Trim(reqs[i].body.phoneNumber)

C15_Witness ==
  \E i \in ROIRequests :
     /\ reqs[i].status = 200
     /\ \E k \in DocsOf(i) :
           /\ store[k].email # reqs[i].body.email
           /\ store[k].phoneNumber # reqs[i].body.phoneNumber
           /\ Less(Zero, store[k].calculatedResults.totalHiddenLoss)

\* A request that passed its handler's validation.
Accepted(i) == reqs[i].save # "none"

\* The handler of request i has run to its end.
Finished(i) == reqs[i].pc \in {"done", "crashed"}

\* The calculateROI calls an accepted request of its endpoint makes.
EstimatorCalls(i) == IF reqs[i].endpoint = "roi" THEN 1 ELSE 0

\* C16 as stated: every accepted submission, once handled, has caused
\* exactly one calculateROI call (ROI endpoint only), exactly one document
\* write and exactly one email send attempt, addressed to
\* info@onethrive.in; no request causes more than one of each.
C16_ExactlyOneOfEach ==
  \A i \in SubmissionRequests :
     /\ reqs[i].calls <= 1
     /\ Cardinality(DocsOf(i)) <= 1 /\ Cardinality(MailsOf(i)) <= 1
     /\ (Accepted(i) /\ Finished(i)) =>
           /\ reqs[i].calls = EstimatorCalls(i)
           /\ Cardinality(DocsOf(i)) = 1
           /\ Cardinality(MailsOf(i)) = 1
           /\ \A k \in MailsOf(i) : outbox[k].to = "info@onethrive.in"

\* C16 amended: every accepted submission causes exactly one calculateROI
\* call (ROI endpoint only, none elsewhere), at most one document write and
\* at most one email send attempt, addressed to info@onethrive.in; an email
\* is attempted only after the document was written; a request answered 200
\* has caused exactly one document write and, in the copies that await the
\* email, exactly one email send attempt; no request causes more than one of
\* each, and a rejected request causes none.
C16_AtMostOneOfEach ==
  \A i \in SubmissionRequests :
     /\ reqs[i].calls <= 1
     /\ Cardinality(DocsOf(i)) <= 1 /\ Cardinality(MailsOf(i)) <= 1
     /\ \A k \in MailsOf(i) : outbox[k].to = "info@onethrive.in"
     /\ Accepted(i) => reqs[i].calls = EstimatorCalls(i)
     /\ ~Accepted(i) =>
           (reqs[i].calls = 0 /\ DocsOf(i) = {} /\ MailsOf(i) = {})
     /\ MailsOf(i) # {} => Cardinality(DocsOf(i)) = 1
     /\ reqs[i].status = 200 => Cardinality(DocsOf(i)) = 1
     /\ (reqs[i].status = 200 /\ ~RespondsBeforeEmail(server)) =>
           Cardinality(MailsOf(i)) = 1

\* an answered ROI request with its one call, document and email, next to an
\* accepted request whose save failed and that wrote and sent nothing
C16_Witness ==
  /\ Len(reqs) = 2
  /\ reqs[1].endpoint = "roi" /\ reqs[1].status = 200 /\ Finished(1)
  /\ reqs[1].calls = 1
  /\ Cardinality(DocsOf(1)) = 1 /\ Cardinality(MailsOf(1)) = 1
  /\ Accepted(2) /\ Finished(2) /\ reqs[2].save = "rejected"
  /\ DocsOf(2) = {} /\ MailsOf(2) = {}

\* C18: a call of calculateROI on a valid input returns all eight fields as
\* numbers and leaves its input and all state outside the call unchanged.
C18_TotalWithoutSideEffects ==
  [][(called' /\ ~called /\ ValidROIInput(data)) =>
        /\ \A f \in ResultFields : RequiredNumber(result'[f])
        /\ data' = data
        /\ UNCHANGED <<server, running, reqs, store, outbox>>
        /\ UNCHANGED <<models, restarts, hits, handled>>]_vars

C18_Witness ==
  /\ called /\ ValidROIInput(data)
  /\ data.avgAnnualSalary = Zero
  /\ \A f \in ResultFields : result[f] = Zero

\* C19: under any interleaving, the result answered to and stored with a
\* request is calculateROI of that request's own input.
C19_OwnResultUnderInterleaving ==
  \A i \in ROIRequests :
     /\ reqs[i].status = 200 =>
          reqs[i].results = calculateROI(ROIInputOf(reqs[i].body))
     /\ \A k \in DocsOf(i) :
          store[k].calculatedResults = calculateROI(ROIInputOf(reqs[i].body))

\* two requests with different results, saved in the opposite order of
\* their arrival, both answered
C19_Witness ==
  /\ Len(store) = 2
  /\ store[1].req = 2 /\ store[2].req = 1
  /\ reqs[1].endpoint = "roi" /\ reqs[2].endpoint = "roi"
  /\ reqs[1].status = 200 /\ reqs[2].status = 200
  /\ reqs[1].results # reqs[2].results

\* C20: in the second program of backend.js every submission handler
\* (contact, ROI, culture-quiz results, culture-quiz email) answers 200 only
\* after its save resolved and before its email send is started; a failed
\* email never produces a 500 and never alters the response already sent.
C20_RespondAfterSaveBeforeEmail ==
  server = "backend.js#2" =>
    \A i \in SubmissionRequests :
       /\ reqs[i].status = 200 =>
            (reqs[i].save = "resolved" /\ Cardinality(DocsOf(i)) = 1)
       /\ (MailsOf(i) # {} \/ reqs[i].mail # "none") =>
            /\ reqs[i].status = 200 /\ reqs[i].responses = 1
            /\ reqs[i].results = ResponseData(reqs[i])

\* two submissions to different endpoints, both answered 200, both emails
\* failed
C20_Witness ==
  /\ server = "backend.js#2"
  /\ Len(reqs) = 2
  /\ reqs[1].endpoint # reqs[2].endpoint
  /\ reqs[1].endpoint \in {"contact", "quiz"}
  /\ \A i \in {1, 2} :
        /\ reqs[i].mail = "failed" /\ reqs[i].pc = "done"
        /\ reqs[i].status = 200 /\ reqs[i].responses = 1

\* C25: for every valid input, a score of at most 8 gives
\* potentialSavingsMax = 2 * potentialSavingsMin and potentialSavingsMin =
\* numEmployees * avgAnnualSalary * (0.34 + absenteeism days / 250) / 10,
\* whatever the score; a score of at least 9 gives potentialSavingsMin =
\* potentialSavingsMax = totalDisengagementCost.
C25_SavingsClosedForm ==
  (called /\ ValidROIInput(data)) =>
     /\ LessEq(data.engagementScore, Number(8, 1)) =>
          /\ result.potentialSavingsMax =
                Mul(Number(2, 1), result.potentialSavingsMin)
          /\ result.potentialSavingsMin =
                Div(Mul(Mul(data.numEmployees, data.avgAnnualSalary),
                        Add(Number(34, 100),
                            Div(data.avgExtraAbsenteeismDaysPerEmployee,
                                Number(250, 1)))),
                    Number(10, 1))
     /\ LessEq(Number(9, 1), data.engagementScore) =>
          /\ result.potentialSavingsMin = result.totalDisengagementCost
          /\ result.potentialSavingsMax = result.totalDisengagementCost

\* the boundary score 8 with absenteeism, and savings that are not zero
C25_Witness ==
  /\ called /\ ValidROIInput(data)
  /\ data.engagementScore = Number(8, 1)
  /\ Less(Zero, data.avgExtraAbsenteeismDaysPerEmployee)
  /\ Less(Zero, result.potentialSavingsMin)
  /\ result.potentialSavingsMax = result.totalDisengagementCost

\* The payloads C22 names: a contact form without fullName or workEmail, a
\* quiz result with a field missing, a malformed email, answers that are
\* not an object or an incomplete cultureLevel, a quiz email that is
\* missing or malformed.
InvalidForm(r) ==
  CASE r.endpoint = "contact" ->
         r.body.fullName = "" \/ r.body.workEmail = ""
    [] r.endpoint = "quiz" ->
         \/ r.body.email = "" \/ ~EmailMatches(r.body.email)
         \/ r.body.answers # "object"
         \/ r.body.totalScore.type = "undefined"
         \/ r.body.totalQuestions.type = "undefined"
         \/ r.body.answeredCount.type = "undefined"
         \/ ~r.body.cultureLevel.present
         \/ r.body.cultureLevel.level = ""
         \/ r.body.cultureLevel.description = "absent"
         \/ r.body.cultureLevel.cta = ""
    [] r.endpoint = "quizEmail" ->
         r.body.email = "" \/ ~EmailMatches(r.body.email)
    [] OTHER -> FALSE

\* C22: on the contact, culture-quiz results and culture-quiz email
\* endpoints a request rejected by the handler's validation is answered 400
\* and causes no document write and no email send.
C22_InvalidFormsRejected ==
  \A i \in DOMAIN reqs :
     InvalidForm(reqs[i]) =>
        /\ reqs[i].status = 400 /\ reqs[i].responses = 1
        /\ reqs[i].save = "none" /\ reqs[i].mail = "none"
        /\ DocsOf(i) = {} /\ MailsOf(i) = {}

\* a contact form without a name and a quiz result with answers that are
\* not an object, both answered 400
C22_Witness ==
  /\ Len(reqs) = 2
  /\ reqs[1].endpoint = "contact" /\ reqs[1].body.fullName = ""
  /\ reqs[2].endpoint = "quiz" /\ reqs[2].body.answers = "string"
  /\ reqs[1].status = 400 /\ reqs[2].status = 400
  /\ store = << >> /\ outbox = << >>

C24_EmailOnlyAfterSave ==
  \A i \in DOMAIN reqs :
     /\ (MailsOf(i) # {} \/ reqs[i].mail # "none") =>
           (reqs[i].save = "resolved" /\ Cardinality(DocsOf(i)) = 1)
     /\ reqs[i].save = "rejected" =>
           (MailsOf(i) = {} /\ reqs[i].mail = "none" /\ DocsOf(i) = {})

\* a request whose document fails the schema validation of save() and has
\* no email, next to a saved request whose email was started
C24_Witness ==
  /\ Len(reqs) = 2
  /\ reqs[1].endpoint # "listEmails"
  /\ ~DocumentValid(Document(1, reqs[1]))
  /\ reqs[1].save = "rejected" /\ Finished(1) /\ MailsOf(1) = {}
  /\ reqs[2].save = "resolved" /\ MailsOf(2) # {}

\* An integer from 0 to 100.
IsPercentage(x) ==
  /\ RequiredNumber(x) /\ x.den = 1
  /\ LessEq(Zero, x) /\ LessEq(x, Number(100, 1))

\* C27: for every accepted culture-quiz submission the stored and returned
\* scorePercentage and completionRate are the rounded quotients of the
\* request's figures and are integers from 0 to 100.
C27_PercentagesInRange ==
  \A i \in DOMAIN reqs :
     (reqs[i].endpoint = "quiz" /\ reqs[i].status = 200) =>
        /\ IsPercentage(reqs[i].results.scorePercentage)
        /\ IsPercentage(reqs[i].results.completionRate)
        /\ \A k \in DocsOf(i) :
              /\ store[k].scorePercentage = reqs[i].results.scorePercentage
              /\ store[k].completionRate = reqs[i].results.completionRate

\* A request body made of an estimator input and the contact fields.
BodyOf(d, email, phoneNumber) ==
  [numEmployees |-> d.numEmployees,
   avgAnnualSalary |-> d.avgAnnualSalary,
   annualRevenue |-> d.annualRevenue,
   employeesWhoLeft |-> d.employeesWhoLeft,
   avgExtraAbsenteeismDaysPerEmployee |->
       d.avgExtraAbsenteeismDaysPerEmployee,
   engagementScore |-> d.engagementScore,
   email |-> email, phoneNumber |-> phoneNumber]

\* C26: the three copies of calculateROI return the same eight fields for
\* every input, and the three copies of the validation of POST
\* /api/roi-calculator give the same verdict on every request.
C26_CopiesEquivalent ==
  called =>
     /\ result = calculateROI_backend1(data)
     /\ result = calculateROI_backend2(data)
     /\ \A email \in {"", "Lead@Acme.in"} :
          \A phoneNumber \in {"", "9876543210"} :
             LET body == BodyOf(data, email, phoneNumber)
             IN  /\ ValidationError_backend1(body) = ValidationError(body)
                 /\ ValidationError_backend2(body) = ValidationError(body)

\* an input every copy accepts with both contact fields and rejects without
\* the email, and whose result has a loss and a revenue increase
C26_Witness ==
  /\ called
  /\ Less(Zero, result.totalHiddenLoss)
  /\ Less(Zero, result.potentialRevenueIncreaseMax)
  /\ ValidationError_backend2(BodyOf(data, "Lead@Acme.in", "9876543210")) = ""
  /\ ValidationError_backend1(BodyOf(data, "", "9876543210")) # ""

\* C21: in the second program of backend.js every POST to /api/contact,
\* /api/roi-calculator and /api/culture-quiz-results passes through the
\* limiter, so within one window no more than 10 requests of one IP address
\* reach the handler of one of these routes.
C21_SubmissionsRateLimited ==
  server = "backend.js#2" =>
     \A e \in {"contact", "roi", "quiz"} : handled[e] <= 10

\* Request i is a listing that gets its answer in this step.
GETAnswered(i) ==
  /\ i \in DOMAIN reqs'
  /\ reqs'[i].endpoint = "listEmails"
  /\ reqs'[i].responses = 1
  /\ i \in DOMAIN reqs => reqs[i].responses = 0

\* C28: whenever the store holds an email submission, GET
\* /api/culture-quiz-emails does not answer 404 'No email submissions
\* found', and a 200 lists the stored submissions, whatever requests and
\* restarts came before.
C28_ListingAfterPersist ==
  [][\A i \in 1..MaxRequests :
        (GETAnswered(i) /\ EmailSubmissions # {}) =>
           /\ reqs'[i].status # 404
           /\ reqs'[i].status = 200 =>
                 reqs'[i].results.emails = EmailSubmissions]_vars

====
